---------------------------- MODULE Spec2Model ----------------------------
(***************************************************************************)
(* A model of calculator.cpp: the six Operation variants, the Calculator   *)
(* aggregate (calculate, addOperation, startCalculation) and the console   *)
(* driver main (setup prompts, menu loop, cleanup).                        *)
(*                                                                         *)
(* Three specifications share the variables:                               *)
(*   SpecSetup  main from its first prompt to the constructed Calculator;  *)
(*   Spec       main from the constructed Calculator on: the menu loop,    *)
(*              startCalculation and main's cleanup;                       *)
(*   SpecAdd    Calculator::addOperation applied to a driver-built         *)
(*              Calculator (main itself never calls it).                   *)
(***************************************************************************)
EXTENDS Integers, Sequences, FiniteSets, TLC

(***************************************************************************)
(* double.  A value is a pair <<n, d>>:                                    *)
(*   d > 0, n # 0, gcd(n, d) = 1   the finite non-zero number n/d          *)
(*   <<0, 1>>, <<0, -1>>           +0.0 and -0.0                           *)
(*   <<1, 0>>, <<-1, 0>>           +infinity and -infinity                 *)
(*   <<0, 0>>                      NaN                                     *)
(* Finite values are exact rationals: the rounding of a double is not      *)
(* modelled.  Signs of zero, infinities and NaN follow IEEE 754, because   *)
(* pow and the comparisons of the execute methods see them.                *)
(***************************************************************************)
Abs(i) == IF i < 0 THEN -i ELSE i

RECURSIVE Gcd(_, _)
Gcd(a, b) == IF b = 0 THEN a ELSE Gcd(b, a % b)

PosZero == <<0, 1>>
NegZero == <<0, -1>>
PosInf == <<1, 0>>
NegInf == <<-1, 0>>
NaN == <<0, 0>>
One == <<1, 1>>

IsNaN(x) == x = NaN
IsInf(x) == x[2] = 0 /\ x[1] # 0
IsZero(x) == x[1] = 0 /\ x[2] # 0

\* The sign bit of a value that is not NaN: -1 or 1.
Sign(x) == IF x[1] # 0 THEN (IF x[1] < 0 THEN -1 ELSE 1)
           ELSE (IF x[2] < 0 THEN -1 ELSE 1)

\* The value of sign s and magnitude n/d (n >= 0, d >= 0), normalised.
Mk(s, n, d) ==
  IF n = 0 /\ d = 0 THEN NaN
  ELSE IF n = 0 THEN <<0, s>>
  ELSE IF d = 0 THEN <<s, 0>>
  ELSE LET g == Gcd(n, d) IN <<s * (n \div g), d \div g>>

\* x == y, x < y as the C++ comparisons on double: false whenever a NaN is
\* compared, and -0.0 == +0.0.
DEq(x, y) ==
  /\ ~IsNaN(x) /\ ~IsNaN(y)
  /\ \/ x = y
     \/ IsZero(x) /\ IsZero(y)
DLt(x, y) ==
  /\ ~IsNaN(x) /\ ~IsNaN(y)
  /\ ~DEq(x, y)
  /\ IF IsInf(x) THEN x = NegInf
     ELSE IF IsInf(y) THEN y = PosInf
     ELSE x[1] * Abs(y[2]) < y[1] * Abs(x[2])

DNeg(x) == IF IsNaN(x) THEN NaN
           ELSE IF IsZero(x) THEN <<0, -x[2]>>
           ELSE <<-x[1], x[2]>>

\* x + y.  An exact zero sum is +0.0 unless both terms are -0.0.
DAdd(x, y) ==
  IF IsNaN(x) \/ IsNaN(y) THEN NaN
  ELSE IF IsInf(x) /\ IsInf(y) THEN (IF x = y THEN x ELSE NaN)
  ELSE IF IsInf(x) THEN x
  ELSE IF IsInf(y) THEN y
  ELSE LET dx == Abs(x[2])
           dy == Abs(y[2])
           n == x[1] * dy + y[1] * dx
       IN IF n = 0
          THEN (IF IsZero(x) /\ IsZero(y) /\ Sign(x) = -1 /\ Sign(y) = -1
                THEN NegZero ELSE PosZero)
          ELSE Mk(IF n < 0 THEN -1 ELSE 1, Abs(n), dx * dy)

DSub(x, y) == DAdd(x, DNeg(y))

DMul(x, y) ==
  IF IsNaN(x) \/ IsNaN(y) THEN NaN
  ELSE Mk(Sign(x) * Sign(y), Abs(x[1]) * Abs(y[1]),
          (IF IsZero(x) THEN 1 ELSE x[2]) * (IF IsZero(y) THEN 1 ELSE y[2]))

\* 1 / x: 1/+0 = +inf, 1/-0 = -inf, 1/+inf = +0, 1/-inf = -0.
DInv(x) ==
  IF IsNaN(x) THEN NaN
  ELSE Mk(Sign(x), (IF IsZero(x) THEN 1 ELSE x[2]), Abs(x[1]))

DDiv(x, y) == DMul(x, DInv(y))

IsInteger(x) == x[2] = 1 \/ IsZero(x)

\* x * x * ... * x, k factors, k >= 1.
RECURSIVE DPowNat(_, _)
DPowNat(x, k) == IF k = 1 THEN x ELSE DMul(x, DPowNat(x, k - 1))

\* pow(x, y) of <cmath> for the exponents the model meets: an integer or an
\* infinity.  pow(x, 0) is 1 for every x, NaN included; pow(1, y) is 1.
DPow(x, y) ==
  CASE IsZero(y) -> One
    [] x = One -> One
    [] IsNaN(x) \/ IsNaN(y) -> NaN
    [] IsInf(y) ->
         LET m == Mk(1, Abs(x[1]), Abs(x[2]))   \* |x|
         IN IF m = One THEN One
            ELSE IF DLt(m, One) = (y = PosInf) THEN PosZero ELSE PosInf
    [] IsInteger(y) /\ y[1] > 0 -> DPowNat(x, y[1])
    [] IsInteger(y) /\ y[1] < 0 -> DInv(DPowNat(x, -y[1]))

\* (int)x == x for the values the model meets.
CastIntEq(x) == IsInteger(x)


(***************************************************************************)
(* throwException: the message goes to cerr and terminate() ends the       *)
(* process.  An operator that may throw returns a record: thrown = ""      *)
(* when it returned normally with value, else the message.                 *)
(***************************************************************************)
Return(v) == [thrown |-> "", value |-> v]
throwException(message) == [thrown |-> message, value |-> NaN]

(***************************************************************************)
(* class Operation and its six variants.                                   *)
(***************************************************************************)
\* Operation::assertValidity: the message thrown, "" when valid.
OperationAssertValidity(o) ==
  IF o.name = "" THEN "Invalid operation name!"
  ELSE IF o.symbol = "" THEN "Invalid operation symbol!"
  ELSE ""

\* Operation(name, symbol) as called by a variant's default constructor.
Operation(variant, name, symbol) ==
  [variant |-> variant, name |-> name, symbol |-> symbol]

AddOperation == Operation("Add", "Add", "+")
SubtractOperation == Operation("Subtract", "Subtract", "-")
MultiplyOperation == Operation("Multiply", "Multiply", "*")
DivideOperation == Operation("Divide", "Divide", "/")
PowerOperation == Operation("Power", "Power", "**")
RootOperation == Operation("Root", "Root", "V")

\* createNew: a copy of the same variant with the same name and symbol.
createNew(o) == Operation(o.variant, o.name, o.symbol)

AddExecute(n1, n2) == Return(DAdd(n1, n2))

\* A faulty SubtractExecute: the operands are exchanged.
SubtractExecuteSwapped(n1, n2) == Return(DSub(n2, n1))

SubtractExecute(n1, n2) == Return(DSub(n1, n2))

MultiplyExecute(n1, n2) == Return(DMul(n1, n2))

\* A faulty DivideExecute: the test for a zero divisor is missing.
DivideExecuteUnchecked(n1, n2) == Return(DDiv(n1, n2))

DivideExecute(n1, n2) ==
  IF DEq(n2, PosZero) THEN throwException("Cannot divide by zero!")
  ELSE Return(DDiv(n1, n2))

PowerExecute(n1, n2) ==
  IF DEq(n1, PosZero) /\ DEq(n2, PosZero)
  THEN throwException("Cannot raise 0 to the power of 0!")
  ELSE Return(DPow(n1, n2))

RootExecute(n1, n2) ==
  IF DLt(n1, PosZero) /\ DLt(n2, PosZero)
  THEN throwException("Cannot take negative root of negative number!")
  ELSE IF DLt(n1, PosZero) /\ ~CastIntEq(n2)
  THEN throwException("Cannot take fractional root of negative number")
  ELSE Return(DPow(n1, DDiv(One, n2)))

\* operations[i]->execute(n1, n2): the virtual call.
execute(o, n1, n2) ==
  CASE o.variant = "Add" -> AddExecute(n1, n2)
    [] o.variant = "Subtract" -> SubtractExecute(n1, n2)
    [] o.variant = "Multiply" -> MultiplyExecute(n1, n2)
    [] o.variant = "Divide" -> DivideExecute(n1, n2)
    [] o.variant = "Power" -> PowerExecute(n1, n2)
    [] o.variant = "Root" -> RootExecute(n1, n2)

ValidSymbols == {"+", "-", "*", "/", "**", "V"}

\* createOperation(operationSymbol).
createOperation(operationSymbol) ==
  CASE operationSymbol = "+" -> Return(AddOperation)
    [] operationSymbol = "-" -> Return(SubtractOperation)
    [] operationSymbol = "*" -> Return(MultiplyOperation)
    [] operationSymbol = "/" -> Return(DivideOperation)
    [] operationSymbol = "**" -> Return(PowerOperation)
    [] operationSymbol = "V" -> Return(RootOperation)
    [] OTHER -> throwException("Invalid operator!")

(***************************************************************************)
(* class Calculator.  name is the pointer the constructor was given (a     *)
(* heap block, never a copy of the text); operations holds the pointed-to  *)
(* Operation objects in array order and operationsArray is the block of    *)
(* the array itself.                                                       *)
(***************************************************************************)
MAX_OPERATORS == 16

\* Calculator::assertValidity: the message thrown, "" when valid; nameLength
\* is strlen of the text name points to.
CalculatorAssertValidity(c, nameLength) ==
  IF nameLength = 0 THEN "Invalid calculator name!"
  ELSE IF c.capacityForOperations = 0
  THEN "Capacity for operations cannot be zero!"
  ELSE ""

\* Calculator::copyFrom without its closing assertValidity.
CalculatorCopyFrom(name, n, capacity, operations, array) ==
  [name |-> name,
   numberOfSupportedOperations |-> n,
   capacityForOperations |-> capacity,
   operations |-> [i \in 1..n |-> operations[i]],
   operationsArray |-> array]

\* Calculator(const char* name, size_t n, Operation** ops).
CalculatorCtor(name, n, operations, array) ==
  CalculatorCopyFrom(name, n, MAX_OPERATORS, operations, array)

\* Calculator(): an empty name and room for two operations.
DefaultCapacity == 2
CalculatorDefaultCtor(name, array) ==
  [name |-> name,
   numberOfSupportedOperations |-> 0,
   capacityForOperations |-> DefaultCapacity,
   operations |-> <<>>,
   operationsArray |-> array]

\* Calculator::calculate: the first stored operation whose symbol is op
\* executes; 0 when none matches.
Matching(c, sym) ==
  {i \in 1..c.numberOfSupportedOperations : c.operations[i].symbol = sym}
\* A faulty calculate: an unmatched symbol leaves the running result as it is.
calculateKeeping(c, n1, n2, sym) ==
  IF Matching(c, sym) = {} THEN Return(n1)
  ELSE LET i == CHOOSE j \in Matching(c, sym) :
                  \A k \in Matching(c, sym) : j <= k
       IN execute(c.operations[i], n1, n2)

calculate(c, n1, n2, sym) ==
  IF Matching(c, sym) = {} THEN Return(PosZero)
  ELSE LET i == CHOOSE j \in Matching(c, sym) :
                  \A k \in Matching(c, sym) : j <= k
       IN execute(c.operations[i], n1, n2)


(***************************************************************************)
(* Bounds of the model and the inputs typed on the console.                *)
(***************************************************************************)
\* Tokens on one input line during setup, at most.
MaxLineLen == 3
\* Operands of one calculation, at most.
MaxOperands == 3
\* Calculations started in one run, at most.
MaxCalcs == 2

\* Decimal numerals and the numbers operator>> converts them to.
Numeral == [t \in {"-1", "0", "1", "2", "3", "4", "5", "17"} |->
              CASE t = "-1" -> -1 [] t = "0" -> 0 [] t = "1" -> 1
                [] t = "2" -> 2 [] t = "3" -> 3 [] t = "4" -> 4
                [] t = "5" -> 5 [] t = "17" -> 17]

\* All input lines of 1..n tokens drawn from S.
RECURSIVE LinesUpTo(_, _)
LinesUpTo(S, n) ==
  IF n = 0 THEN {}
  ELSE LET shorter == LinesUpTo(S, n - 1)
       IN {<<t>> : t \in S} \cup shorter
            \cup {Append(l, t) : l \in shorter, t \in S}

\* Setup: counts within and over the capacity, two valid symbols, one
\* token that is neither a number nor a symbol.
SetupTokens == {"0", "1", "2", "17", "+", "V", "x"}
SetupLines == LinesUpTo(SetupTokens, MaxLineLen)
\* Lengths of the line typed as the calculator's name.
NameLengths == {0, 4, 255, 256}

\* Menu loop and calculation: one token per line.
MenuLines == LinesUpTo({"1", "2", "3", "4", "5", "x"}, 1)
\* An operand may also be typed with the end of the expression behind it.
OperandLines == LinesUpTo({"-1", "0", "1", "x"}, 1) \cup {<<"x", "=">>}
OperatorLines == LinesUpTo(ValidSymbols \cup {"="}, 1)

\* The operation lists of the calculators Spec starts from, as the symbols
\* entered during setup.
OperationLists ==
  {<<>>, <<"+">>, <<"/">>, <<"**">>, <<"V">>, <<"+", "-">>, <<"+", "*">>,
   <<"*", "+">>, <<"-", "/">>, <<"**", "V">>, <<"*", "*">>}

(***************************************************************************)
(* State.                                                                  *)
(***************************************************************************)
VARIABLES
  pc,                  \* where main is: the read it is blocked on or a final state
  line,                \* cin: the unread tokens of the current input line
  failbit,             \* cin.fail()
  calculatorName,      \* main: strlen of the text in the buffer calculatorName
  numberOfOperations,  \* main
  operationList,       \* main: the array of MAX_OPERATORS strings
  i,                   \* main: index of the symbol loop
  ops,                 \* main: the Operation objects ops[0..n-1] point to
  calc,                \* main: *calc
  numberOfSuccessfulCalculations,  \* Calculator's static counter
  result,              \* startCalculation's locals
  num2,
  op,
  cout,                \* what the current prompt's handler wrote to cout
  cerr,                \* the message throwException wrote, "" if none
  heap,                \* each allocated block -> number of times it was deleted
  started,             \* history: calls of startCalculation
  expr,                \* history: tokens consumed by the startCalculation that is
                       \* running or returned in the last step
  lastStep,            \* history: <<n1, op, n2>> of its last call of calculate
  exitChosen,          \* history: the menu loop read option 4
  setupLog             \* history of setup: the count token accepted, the kinds
                       \* of count refused, the tokens of the current symbol
                       \* batch, whether a batch was abandoned

vars == <<pc, line, failbit, calculatorName, numberOfOperations, operationList,
          i, ops, calc, numberOfSuccessfulCalculations, result, num2, op,
          cout, cerr, heap, started, expr, lastStep, exitChosen, setupLog>>

mainVars == <<calculatorName, numberOfOperations, operationList, i, ops, calc>>
calcVars == <<result, num2, op>>
histVars == <<started, expr, lastStep, exitChosen>>
NoSetupLog == [count |-> "", refused |-> {}, batch |-> <<>>, abandoned |-> FALSE]

\* What a handler wrote to cout: its kind and the values in it.
Out(kind, data) == [kind |-> kind, data |-> data]

\* An uninitialized local or member.
Uninit == <<>>
NoCalculator == [name |-> Uninit]

\* Heap blocks.
BlockCalculatorName == <<"calculatorName", 0>>
BlockOperationList == <<"operationList", 0>>
BlockOps == <<"ops", 0>>
BlockCalc == <<"calc", 0>>
BlockCalcOperations == <<"calc->operations", 0>>
BlockOperation(k) == <<"Operation", k>>

\* new: the block is live.  delete: one more release of the block.
New(h, blocks) == [b \in (DOMAIN h) \cup blocks |->
                     IF b \in blocks THEN 0 ELSE h[b]]
Delete(h, blocks) == [b \in DOMAIN h |-> IF b \in blocks THEN h[b] + 1 ELSE h[b]]

(***************************************************************************)
(* cin.  A read that finds no unread token blocks until the user types     *)
(* the next line.  cin.ignore(max, '\n') always runs with the newline of   *)
(* the current line still unread, so it drops the rest of that line.       *)
(***************************************************************************)
\* The lines a read may see: the current one, else any the user may type.
Incoming(lines) == IF line = <<>> THEN lines ELSE {line}

\* cin >> double: the value, or 0 and failbit when the token is no number.
ParseDouble(tok) ==
  IF tok \in DOMAIN Numeral
  THEN [ok |-> TRUE,
        value |-> IF Numeral[tok] = 0 THEN PosZero ELSE <<Numeral[tok], 1>>]
  ELSE [ok |-> FALSE, value |-> PosZero]

\* cin >> size_t, cin >> short for the numerals of the model (none is
\* negative where a size_t is read, none overflows).
ParseInteger(tok) ==
  IF tok \in DOMAIN Numeral
  THEN [ok |-> TRUE, value |-> Numeral[tok]]
  ELSE [ok |-> FALSE, value |-> 0]


(***************************************************************************)
(* main, setup: the name, the number of operations, the symbols, the       *)
(* Calculator.                                                             *)
(***************************************************************************)
NameBufferSize == 256

\* throwException inside main or a callee: the process ends.
Terminate(message) ==
  /\ pc' = "aborted"
  /\ cerr' = message

\* cin.getline(calculatorName, 256): at most 255 characters are stored; a
\* longer line sets failbit and leaves its rest unread.
ReadName ==
  /\ pc = "name"
  /\ \E len \in NameLengths :
       /\ calculatorName' = IF len < NameBufferSize THEN len
                            ELSE NameBufferSize - 1
       /\ failbit' = (len >= NameBufferSize)
  /\ pc' = "count"
  /\ line' = <<>>
  /\ UNCHANGED <<numberOfOperations, operationList, i, ops, calc,
                 numberOfSuccessfulCalculations, calcVars, cout, cerr, heap,
                 histVars, setupLog>>

\* The test of the count loop: "" when the count is accepted, else what is
\* printed before the prompt is issued again.
\* A faulty CountVerdict: the comparison with the capacity is missing.
CountVerdictUnbounded(failed, n) ==
  IF failed THEN "Couldn't convert to number!" ELSE ""

CountVerdict(failed, n) ==
  IF failed THEN "Couldn't convert to number!"
  ELSE IF n > MAX_OPERATORS THEN "Exceeded operator capacity of 16!"
  ELSE ""

\* One round of the do-while loop reading numberOfOperations.  An accepted
\* count leaves the loop; new string[MAX_OPERATORS] follows.
ReadCount(lines) ==
  /\ pc = "count"
  /\ \E ln \in (IF failbit THEN {line} ELSE Incoming(lines)) :
       LET parsed == IF failbit THEN [ok |-> FALSE, value |-> numberOfOperations]
                     ELSE ParseInteger(Head(ln))
           verdict == CountVerdict(~parsed.ok, parsed.value)
       IN /\ numberOfOperations' = parsed.value
          /\ cout' = Out(verdict, <<>>)
          /\ setupLog' = IF verdict = ""
                         THEN [setupLog EXCEPT !.count = Head(ln)]
                         ELSE [setupLog EXCEPT !.refused = @ \cup {verdict}]
          /\ IF verdict = ""
             THEN /\ pc' = "symbols"
                  /\ line' = Tail(ln)
                  /\ operationList' = [k \in 1..MAX_OPERATORS |-> ""]
                  /\ i' = 0
                  /\ heap' = New(heap, {BlockOperationList})
             ELSE /\ pc' = "count"
                  /\ line' = <<>>
                  /\ UNCHANGED <<operationList, i, heap>>
  /\ failbit' = FALSE
  /\ UNCHANGED <<calculatorName, ops, calc, numberOfSuccessfulCalculations,
                 calcVars, cerr, histVars>>

\* A faulty test of the symbol loop: "x" passes as a symbol.
IsOperationSymbolLoose(operationSymbol) ==
  operationSymbol \in ValidSymbols \cup {"x"}

\* The test of the symbol loop on one token.
IsOperationSymbol(operationSymbol) ==
  \/ operationSymbol = "+"
  \/ operationSymbol = "-"
  \/ operationSymbol = "*"
  \/ operationSymbol = "/"
  \/ operationSymbol = "**"
  \/ operationSymbol = "V"

\* One round of the for loop of the symbol batch.  A token that is no
\* symbol ends the batch: the rest of its line is dropped and a new batch
\* starts at index 0.
ReadSymbol(lines) ==
  /\ pc = "symbols"
  /\ i < numberOfOperations
  /\ \E ln \in Incoming(lines) :
       LET operationSymbol == Head(ln)
       IN IF IsOperationSymbol(operationSymbol)
          THEN /\ operationList' = [operationList EXCEPT ![i + 1] = operationSymbol]
               /\ i' = i + 1
               /\ line' = Tail(ln)
               /\ cout' = Out("", <<>>)
               /\ setupLog' = [setupLog EXCEPT !.batch = Append(@, operationSymbol)]
          ELSE /\ cout' = Out("Invalid operator!", <<>>)
               /\ i' = 0
               /\ line' = <<>>
               /\ setupLog' = [setupLog EXCEPT !.batch = <<>>, !.abandoned = TRUE]
               /\ UNCHANGED operationList
  /\ UNCHANGED <<pc, failbit, calculatorName, numberOfOperations, ops, calc,
                 numberOfSuccessfulCalculations, calcVars, cerr, heap, histVars>>

\* ops[k] = createOperation(operationList[k]) for the first n entries.
CreatedOperations(list, n) == [k \in 1..n |-> createOperation(list[k])]

\* The blocks main and the Calculator constructor allocate for n operations.
BuildBlocks(n) ==
  {BlockOps, BlockCalc, BlockCalcOperations} \cup {BlockOperation(k) : k \in 1..n}

\* The end of a batch of valid symbols (the rest of the line is dropped),
\* the operations are created and the Calculator is constructed on
\* the caller's name buffer.
Build ==
  /\ pc = "symbols"
  /\ i = numberOfOperations
  /\ line' = <<>>
  /\ LET created == CreatedOperations(operationList, numberOfOperations)
         refused == {k \in 1..numberOfOperations : created[k].thrown # ""}
         built == CalculatorCtor(BlockCalculatorName, numberOfOperations,
                                 [k \in 1..numberOfOperations |-> created[k].value],
                                 BlockCalcOperations)
     IN IF refused # {}
        THEN /\ Terminate("Invalid operator!")
             /\ heap' = New(heap, {BlockOps})
             /\ UNCHANGED <<ops, calc, cout>>
        ELSE /\ ops' = [k \in 1..numberOfOperations |-> created[k].value]
             /\ calc' = built
             /\ heap' = New(heap, BuildBlocks(numberOfOperations))
             /\ IF CalculatorAssertValidity(built, calculatorName) # ""
                THEN /\ Terminate(CalculatorAssertValidity(built, calculatorName))
                     /\ UNCHANGED cout
                ELSE /\ pc' = "menu"
                     /\ cout' = Out("menu", <<>>)
                     /\ UNCHANGED cerr
  /\ UNCHANGED <<failbit, calculatorName, numberOfOperations, operationList, i,
                 numberOfSuccessfulCalculations, calcVars, histVars, setupLog>>

InitSetup ==
  /\ pc = "name"
  /\ line = <<>>
  /\ failbit = FALSE
  /\ calculatorName = 0
  /\ numberOfOperations = Uninit
  /\ operationList = <<>>
  /\ i = 0
  /\ ops = <<>>
  /\ calc = NoCalculator
  /\ numberOfSuccessfulCalculations = 0
  /\ result = Uninit
  /\ num2 = Uninit
  /\ op = ""
  /\ cout = Out("", <<>>)
  /\ cerr = ""
  /\ heap = New(<<>>, {BlockCalculatorName})
  /\ started = 0
  /\ expr = <<>>
  /\ lastStep = Uninit
  /\ exitChosen = FALSE
  /\ setupLog = NoSetupLog

NextSetup ==
  \/ ReadName
  \/ ReadCount(SetupLines)
  \/ ReadSymbol(SetupLines)
  \/ Build

SpecSetup == InitSetup /\ [][NextSetup]_vars


(***************************************************************************)
(* main, the menu loop.  Every round prints the menu and reads             *)
(* chosenOption; a token that is no number leaves 0 in it.                 *)
(***************************************************************************)
ChosenOption(tok) == ParseInteger(tok).value

\* Calculator::listSupportedOperations: one line per stored operation.
ListedOperations(c) ==
  [k \in 1..c.numberOfSupportedOperations |->
     <<c.operations[k].symbol, " - ", c.operations[k].name>>]

\* Calculator::listInputFormat: the two lines of the usage text.
InputFormat ==
  <<"<num1> <symbol> <num2> <symbol> <num3> ... <numN> =",
    "Please make sure to include spaces between each number and operator.">>

ListSupportedOperations(lines) ==
  /\ pc = "menu"
  /\ \E ln \in Incoming(lines) :
       /\ ChosenOption(Head(ln)) = 1
       /\ line' = Tail(ln)
  /\ cout' = Out("operations", ListedOperations(calc))
  /\ expr' = <<>>
  /\ lastStep' = Uninit
  /\ UNCHANGED <<pc, failbit, mainVars, numberOfSuccessfulCalculations,
                 calcVars, cerr, heap, started, exitChosen, setupLog>>

ListInputFormat(lines) ==
  /\ pc = "menu"
  /\ \E ln \in Incoming(lines) :
       /\ ChosenOption(Head(ln)) = 2
       /\ line' = Tail(ln)
  /\ cout' = Out("format", InputFormat)
  /\ expr' = <<>>
  /\ lastStep' = Uninit
  /\ UNCHANGED <<pc, failbit, mainVars, numberOfSuccessfulCalculations,
                 calcVars, cerr, heap, started, exitChosen, setupLog>>

\* case 3: startCalculation is entered and blocks on its first read.
StartCalculation(lines) ==
  /\ pc = "menu"
  /\ started < MaxCalcs
  /\ \E ln \in Incoming(lines) :
       /\ ChosenOption(Head(ln)) = 3
       /\ line' = Tail(ln)
  /\ pc' = "AwaitFirstOperand"
  /\ result' = Uninit
  /\ num2' = Uninit
  /\ op' = ""
  /\ cout' = Out("", <<>>)
  /\ started' = started + 1
  /\ expr' = <<>>
  /\ lastStep' = Uninit
  /\ UNCHANGED <<failbit, mainVars, numberOfSuccessfulCalculations, cerr, heap,
                 exitChosen, setupLog>>

\* case 4: the loop is left; main's cleanup follows.
ChooseExit(lines) ==
  /\ pc = "menu"
  /\ \E ln \in Incoming(lines) :
       /\ ChosenOption(Head(ln)) = 4
       /\ line' = Tail(ln)
  /\ pc' = "delete calculatorName"
  /\ cout' = Out("", <<>>)
  /\ exitChosen' = TRUE
  /\ expr' = <<>>
  /\ lastStep' = Uninit
  /\ UNCHANGED <<failbit, mainVars, numberOfSuccessfulCalculations, calcVars,
                 cerr, heap, started, setupLog>>

\* default: the message, cin.clear() and the rest of the line dropped.
InvalidOption(lines) ==
  /\ pc = "menu"
  /\ \E ln \in Incoming(lines) : ChosenOption(Head(ln)) \notin {1, 2, 3, 4}
  /\ line' = <<>>
  /\ failbit' = FALSE
  /\ cout' = Out("Invalid option, try again.", <<>>)
  /\ expr' = <<>>
  /\ lastStep' = Uninit
  /\ UNCHANGED <<pc, mainVars, numberOfSuccessfulCalculations, calcVars, cerr,
                 heap, started, exitChosen, setupLog>>

(***************************************************************************)
(* Calculator::startCalculation.  Once failbit is set every later          *)
(* operator>> returns at once: it reads nothing and leaves its target as   *)
(* it was.                                                                 *)
(***************************************************************************)
\* A faulty increment: the counter is left as it is.
NotIncremented(n) == n

\* numberOfSuccessfulCalculations++.
Incremented(n) == n + 1

\* Operands among the tokens consumed so far.
Operands(e) == (Len(e) + 1) \div 2

\* cin >> result.
ReadFirstOperand(lines) ==
  /\ pc = "AwaitFirstOperand"
  /\ \E ln \in Incoming(lines) :
       LET parsed == ParseDouble(Head(ln))
       IN /\ result' = parsed.value
          /\ failbit' = ~parsed.ok
          /\ line' = IF parsed.ok THEN Tail(ln) ELSE ln
          /\ expr' = IF parsed.ok THEN <<Head(ln)>> ELSE expr
  /\ pc' = "AwaitOperatorOrEnd"
  /\ UNCHANGED <<mainVars, numberOfSuccessfulCalculations, num2, op, cout, cerr,
                 heap, started, lastStep, exitChosen, setupLog>>

\* cin >> op; if(op == "=") break; and after the loop the counter is
\* incremented, the result printed and the menu loop resumed.
ReadOperator(lines) ==
  /\ pc = "AwaitOperatorOrEnd"
  /\ \E ln \in (IF failbit THEN {line} ELSE Incoming(lines)) :
       LET read == IF failbit THEN op ELSE Head(ln)
       IN /\ failbit \/ read = "=" \/ Operands(expr) < MaxOperands
          /\ op' = read
          /\ line' = IF failbit THEN line ELSE Tail(ln)
          /\ expr' = IF failbit THEN expr ELSE Append(expr, read)
          /\ IF read = "="
             THEN /\ numberOfSuccessfulCalculations' =
                       Incremented(numberOfSuccessfulCalculations)
                  /\ cout' = Out("result", <<result>>)
                  /\ pc' = "menu"
             ELSE /\ pc' = "AwaitSecondOperand"
                  /\ UNCHANGED <<numberOfSuccessfulCalculations, cout>>
  /\ UNCHANGED <<failbit, mainVars, result, num2, cerr, heap, started, lastStep,
                 exitChosen, setupLog>>

\* cin >> num2; result = calculate(result, num2, op).
ReadSecondOperand(lines) ==
  /\ pc = "AwaitSecondOperand"
  /\ \E ln \in (IF failbit THEN {line} ELSE Incoming(lines)) :
       LET parsed == IF failbit THEN [ok |-> FALSE, value |-> num2]
                     ELSE ParseDouble(Head(ln))
           got == calculate(calc, result, parsed.value, op)
       IN /\ num2' = parsed.value
          /\ failbit' = ~parsed.ok
          /\ line' = IF parsed.ok THEN Tail(ln) ELSE ln
          /\ expr' = IF parsed.ok THEN Append(expr, Head(ln)) ELSE expr
          /\ lastStep' = <<result, op, parsed.value>>
          /\ IF got.thrown # ""
             THEN /\ Terminate(got.thrown)
                  /\ UNCHANGED result
             ELSE /\ result' = got.value
                  /\ pc' = "AwaitOperatorOrEnd"
                  /\ UNCHANGED cerr
  /\ UNCHANGED <<mainVars, numberOfSuccessfulCalculations, op, cout, heap,
                 started, exitChosen, setupLog>>

(***************************************************************************)
(* main, cleanup.  Deleting a block a second time is undefined: the        *)
(* allocator either detects it and aborts the process or lets it pass.     *)
(***************************************************************************)
\* Some block of the set was deleted before.
DeletedBefore(h, blocks) == \E b \in blocks : h[b] > 0

\* delete[] calculatorName.
DeleteCalculatorName ==
  /\ pc = "delete calculatorName"
  /\ heap' = Delete(heap, {BlockCalculatorName})
  /\ pc' = "delete calc"
  /\ UNCHANGED <<line, failbit, mainVars, numberOfSuccessfulCalculations,
                 calcVars, cout, cerr, histVars, setupLog>>

\* delete calc: ~Calculator() deletes name and operations, then the object
\* is released.
DeleteCalc ==
  /\ pc = "delete calc"
  /\ \/ /\ heap' = Delete(Delete(Delete(heap, {calc.name}),
                                 {calc.operationsArray}), {BlockCalc})
        /\ pc' = "delete ops"
        /\ UNCHANGED cerr
     \/ /\ DeletedBefore(heap, {calc.name})
        /\ heap' = Delete(heap, {calc.name})
        /\ Terminate("free(): double free detected")
  /\ UNCHANGED <<line, failbit, mainVars, numberOfSuccessfulCalculations,
                 calcVars, cout, histVars, setupLog>>

\* delete ops[k] for every operation, delete[] ops, return 0.
DeleteOps ==
  /\ pc = "delete ops"
  /\ heap' = Delete(Delete(heap, {BlockOperation(k) : k \in 1..numberOfOperations}),
                    {BlockOps})
  /\ pc' = "exited"
  /\ UNCHANGED <<line, failbit, mainVars, numberOfSuccessfulCalculations,
                 calcVars, cout, cerr, histVars, setupLog>>

\* The state Build leaves after a name of length len, the count n and the
\* symbols list were entered, with main at position at.
Built(len, list, at) ==
  LET n == Len(list)
      created == [k \in 1..n |-> createOperation(list[k]).value]
  IN /\ pc = at
     /\ line = <<>>
     /\ failbit = FALSE
     /\ calculatorName = len
     /\ numberOfOperations = n
     /\ operationList = [k \in 1..MAX_OPERATORS |-> IF k <= n THEN list[k] ELSE ""]
     /\ i = n
     /\ ops = created
     /\ calc = CalculatorCtor(BlockCalculatorName, n, created, BlockCalcOperations)
     /\ numberOfSuccessfulCalculations = 0
     /\ result = Uninit
     /\ num2 = Uninit
     /\ op = ""
     /\ cout = Out("menu", <<>>)
     /\ cerr = ""
     /\ heap = New(New(<<>>, {BlockCalculatorName, BlockOperationList}),
                   BuildBlocks(n))
     /\ started = 0
     /\ expr = <<>>
     /\ lastStep = Uninit
     /\ exitChosen = FALSE
     /\ setupLog = [NoSetupLog EXCEPT !.batch = list]

\* Name lengths that pass the Calculator constructor unchanged.
StoredNameLengths == {l \in NameLengths : 0 < l /\ l < NameBufferSize - 1}

Init ==
  \E len \in StoredNameLengths, list \in OperationLists :
    Built(len, list, "menu")

Next ==
  \/ ListSupportedOperations(MenuLines)
  \/ ListInputFormat(MenuLines)
  \/ StartCalculation(MenuLines)
  \/ ChooseExit(MenuLines)
  \/ InvalidOption(MenuLines)
  \/ ReadFirstOperand(OperandLines)
  \/ ReadOperator(OperatorLines)
  \/ ReadSecondOperand(OperandLines)
  \/ DeleteCalculatorName
  \/ DeleteCalc
  \/ DeleteOps

Spec == Init /\ [][Next]_vars

\* The process is never suspended: a step that is possible is taken.  A read
\* on a stream whose failbit is set does not even wait for input.
FairSpec == Spec /\ WF_vars(Next)


(***************************************************************************)
(* Calculator::addOperation, called on the Calculator main built.          *)
(***************************************************************************)
BlockReturned == <<"addOperation: new Calculator()", 0>>
BlockReturnedName == <<"addOperation: new char[1]", 0>>
BlockReturnedOperations == <<"addOperation: new Operation*[2]", 0>>

\* strlen of the buffer Calculator() fills: buffer[0] = '\0'.
DefaultNameLength == 0

\* The objects addOperation may be given: one of each variant.
Prototypes == {AddOperation, SubtractOperation, MultiplyOperation,
               DivideOperation, PowerOperation, RootOperation}

\* The capacity check; the clone stored behind the last entry; then
\* return *new Calculator(), whose constructor ends in assertValidity.
AddOperationCall(o) ==
  /\ pc = "addOperation"
  /\ IF calc.numberOfSupportedOperations = calc.capacityForOperations
     THEN /\ Terminate("Capacity for operations exceeded!")
          /\ UNCHANGED <<calc, heap>>
     ELSE LET returned == CalculatorDefaultCtor(BlockReturnedName,
                                                BlockReturnedOperations)
              refusal == CalculatorAssertValidity(returned, DefaultNameLength)
          IN /\ calc' = [calc EXCEPT
                           !.operations = Append(@, createNew(o)),
                           !.numberOfSupportedOperations = @ + 1]
             /\ heap' = New(heap, {BlockOperation(calc.numberOfSupportedOperations + 1),
                                   BlockReturned, BlockReturnedName,
                                   BlockReturnedOperations})
             /\ IF refusal # ""
                THEN Terminate(refusal)
                ELSE /\ pc' = "returned"
                     /\ UNCHANGED cerr
  /\ UNCHANGED <<line, failbit, calculatorName, numberOfOperations,
                 operationList, i, ops, numberOfSuccessfulCalculations,
                 calcVars, cout, histVars, setupLog>>

AddOperationStep == \E o \in Prototypes : AddOperationCall(o)

\* Calculators holding MAX_OPERATORS operations, or one fewer.
LongLists ==
  {[k \in 1..n |-> sym] : n \in {MAX_OPERATORS - 1, MAX_OPERATORS},
                          sym \in {"+", "*", "/", "V"}}

InitAdd ==
  \E len \in StoredNameLengths, list \in OperationLists \cup LongLists :
    Built(len, list, "addOperation")

NextAdd == AddOperationStep

SpecAdd == InitAdd /\ [][NextAdd]_vars


(***************************************************************************)
(* Properties.                                                             *)
(***************************************************************************)
CalcStates == {"AwaitFirstOperand", "AwaitOperatorOrEnd", "AwaitSecondOperand"}

\* sym is the symbol of an operation stored on the Calculator.
Stored(sym) ==
  \E k \in 1..calc.numberOfSupportedOperations : calc.operations[k].symbol = sym

\* The formula each symbol stands for.
Formula(sym, a, b) ==
  CASE sym = "+" -> DAdd(a, b)
    [] sym = "-" -> DSub(a, b)
    [] sym = "*" -> DMul(a, b)
    [] sym = "/" -> DDiv(a, b)
    [] sym = "**" -> DPow(a, b)
    [] sym = "V" -> DPow(a, DDiv(One, b))

\* The number a numeral token denotes.
Number(tok) == IF Numeral[tok] = 0 THEN PosZero ELSE <<Numeral[tok], 1>>

\* In e = <<n1, op1, n2, op2, ...>>, operand k is e[2k - 1] and the operator
\* before it is e[2k - 2].  FoldFrom(e, j, v, k) is the value of the first k
\* operands folded from the left when the value after operand j is v:
\* ((v op n(j+1)) op n(j+2)) ... op nk.
RECURSIVE FoldFrom(_, _, _, _)
FoldFrom(e, j, v, k) ==
  IF k = j THEN v
  ELSE Formula(e[2 * k - 2], FoldFrom(e, j, v, k - 1), Number(e[2 * k - 1]))

LeftFold(e) == FoldFrom(e, 1, Number(e[1]), Operands(e))

\* The operands of e whose operator is stored on no operation.
Unmatched(e) == {k \in 2..Operands(e) : ~Stored(e[2 * k - 2])}

\* A calculation returned in the last step and printed its result.
Completed == pc = "menu" /\ cout.kind = "result"

\* C1: a completed calculation whose operators are all stored on the
\* Calculator prints the strict left-to-right fold of its operands,
\* (...((n1 op1 n2) op2 n3)... ) opk-1 nk, and n1 itself for "n1 =".
C1_LeftFold ==
  (Completed /\ Unmatched(expr) = {}) => cout.data = <<LeftFold(expr)>>

\* 1 + 1 * 0 = printed 0 (the fold), not 1 (precedence).
C1_Witness ==
  /\ Completed
  /\ expr = <<"1", "+", "1", "*", "0", "=">>
  /\ Unmatched(expr) = {}
  /\ cout.data = <<PosZero>>

\* The error conditions C2 names, for the operation a stored symbol selects.
NamedError(sym, n1, n2) ==
  \/ sym = "/" /\ IsZero(n2)
  \/ sym = "**" /\ IsZero(n1) /\ IsZero(n2)
  \/ sym = "V" /\ DLt(n1, PosZero) /\ DLt(n2, PosZero)

FatalStep ==
  /\ lastStep # Uninit
  /\ Stored(lastStep[2])
  /\ NamedError(lastStep[2], lastStep[1], lastStep[3])

\* C2: a step of startCalculation that meets the error condition of the
\* selected operation ends the process there: a message is on cerr, nothing
\* runs afterwards, the calculation is not counted and prints no result.
C2_FatalStepTerminates ==
  FatalStep =>
    /\ pc = "aborted"
    /\ cerr # ""
    /\ ~ENABLED Next
    /\ numberOfSuccessfulCalculations = started - 1
    /\ cout.kind # "result"

\* A second calculation divides by zero after a first one completed.
C2_Witness ==
  /\ FatalStep
  /\ lastStep[2] = "/"
  /\ cerr = "Cannot divide by zero!"
  /\ started = 2
  /\ numberOfSuccessfulCalculations = 1

\* C3: an operator stored on no operation does not end the process: the
\* running result is 0 after that step; on "=" the calculation completes,
\* is counted, and prints the fold of the later operands onto that 0.
C3_UnmatchedYieldsZero ==
  /\ (lastStep # Uninit /\ ~Stored(lastStep[2])) =>
       /\ pc # "aborted"
       /\ IF Completed THEN cout.data = <<PosZero>> ELSE result = PosZero
  /\ (Completed /\ Unmatched(expr) # {}) =>
       LET j == CHOOSE k \in Unmatched(expr) : \A m \in Unmatched(expr) : m <= k
       IN /\ cout.data = <<FoldFrom(expr, j, PosZero, Operands(expr))>>
          /\ numberOfSuccessfulCalculations = started

\* Only + is stored: 1 * 1 + 1 = prints 1, the 0 of the unmatched * plus 1.
C3_Witness ==
  /\ Completed
  /\ ~Stored("*")
  /\ expr = <<"1", "*", "1", "+", "1", "=">>
  /\ cout.data = <<One>>
  /\ numberOfSuccessfulCalculations = started

\* A call of startCalculation has not returned: it is running, or the
\* process ended inside it.
Unfinished == pc \in CalcStates \/ (pc = "aborted" /\ ~exitChosen)

\* C4: the counter is the number of calls of startCalculation that ran to
\* their "=": every call started, less the one that has not returned.
C4_CounterCountsCompleted ==
  numberOfSuccessfulCalculations = started - (IF Unfinished THEN 1 ELSE 0)

\* Two completed calculations, then the operations were listed.
C4_Witness ==
  /\ numberOfSuccessfulCalculations = 2
  /\ started = 2
  /\ pc = "menu"
  /\ cout.kind = "operations"

\* startCalculation is to read its operator and the user has typed "=" in
\* that position: as the next unread token, or behind the operand token
\* that a failed conversion left unread.
EndTyped ==
  /\ pc = "AwaitOperatorOrEnd"
  /\ \/ ~failbit /\ line # <<>> /\ Head(line) = "="
     \/ failbit /\ Len(line) >= 2 /\ line[2] = "="

\* The liveness half of C5: a typed "=" in the operator position is
\* followed by the return to the menu loop.
C5_EndIsReached == EndTyped ~> (pc = "menu")

\* C5 as claimed: every visit of a state of startCalculation consumes
\* exactly one input token, whatever the token is, and a "=" in the
\* operator position leads to Done and back to the menu loop.
C5_EachVisitConsumesOneToken ==
  /\ [][(pc \in CalcStates) => (Len(expr') = Len(expr) + 1)]_vars
  /\ C5_EndIsReached

\* C6 as claimed: addOperation below the capacity stores the clone behind
\* the entries present and returns; at the capacity it ends the process and
\* leaves the list as it is.
C6_AddOperationReturns ==
  [][pc = "addOperation" =>
       IF calc.numberOfSupportedOperations < calc.capacityForOperations
       THEN /\ pc' = "returned"
            /\ calc'.numberOfSupportedOperations = calc.numberOfSupportedOperations + 1
            /\ \A k \in 1..calc.numberOfSupportedOperations :
                 calc'.operations[k] = calc.operations[k]
       ELSE /\ pc' = "aborted"
            /\ cerr' = "Capacity for operations exceeded!"
            /\ calc' = calc]_vars

\* C7: past the count prompt the count is a number read from a numeral and
\* at most 16; a refused entry leaves nothing of its line unread; a
\* constructed Calculator stores at most its capacity, which is 16.
C7_CountWithinCapacity ==
  /\ pc \notin {"name", "count"} =>
       /\ setupLog.count \in DOMAIN Numeral
       /\ numberOfOperations = Numeral[setupLog.count]
       /\ numberOfOperations <= 16
  /\ (pc = "count" /\ setupLog.refused # {}) => line = <<>>
  /\ calc # NoCalculator =>
       /\ calc.numberOfSupportedOperations = numberOfOperations
       /\ calc.numberOfSupportedOperations <= calc.capacityForOperations
       /\ calc.capacityForOperations = 16

\* A count over the capacity and an unparseable one were refused, then a
\* Calculator with two operations was constructed.
C7_Witness ==
  /\ pc = "menu"
  /\ setupLog.refused = {"Couldn't convert to number!",
                         "Exceeded operator capacity of 16!"}
  /\ calc.numberOfSupportedOperations = 2

\* C9: the tokens of the batch being read are all symbols and are the
\* entries stored so far; after an invalid token nothing of its line is
\* left and the batch is empty; the Calculator holds the symbols of the
\* completed batch in their order; createOperation never refuses.
C9_OnlyValidBatches ==
  /\ cerr # "Invalid operator!"
  /\ pc = "symbols" =>
       /\ Len(setupLog.batch) = i
       /\ \A k \in 1..i : /\ setupLog.batch[k] \in {"+", "-", "*", "/", "**", "V"}
                          /\ operationList[k] = setupLog.batch[k]
  /\ (pc = "symbols" /\ cout.kind = "Invalid operator!") =>
       /\ line = <<>>
       /\ setupLog.batch = <<>>
  /\ calc # NoCalculator =>
       /\ Len(setupLog.batch) = numberOfOperations
       /\ calc.numberOfSupportedOperations = numberOfOperations
       /\ \A k \in 1..numberOfOperations :
            calc.operations[k].symbol = setupLog.batch[k]

\* A batch was abandoned, then V + was entered and the Calculator built.
C9_Witness ==
  /\ pc = "menu"
  /\ setupLog.abandoned
  /\ setupLog.batch = <<"V", "+">>
  /\ calc.operations[1] = RootOperation
  /\ calc.operations[2] = AddOperation

\* C8 as claimed: once the menu loop has read option 4 the process ends by
\* returning 0 from main only.
C8_ExitTerminatesNormally == exitChosen => pc # "aborted"

\* C10 as claimed: no heap block is deleted twice.
C10_NoBlockDeletedTwice == \A b \in DOMAIN heap : heap[b] <= 1

=============================================================================
